---- MODULE Spec2Model ----
(***************************************************************************)
(* Model of the transaction-state provider of the finance app              *)
(* (finanace-app_2/src/components/TransactionContext.jsx): the billing     *)
(* cycle boundary calculator, the surplus forwarder and the store          *)
(* commands, together with the submit handler of AddTransactionModal.jsx.  *)
(*                                                                         *)
(* Instants are local-time pairs [day, ms]: day is a day number counted    *)
(* from 1 January 2000, ms the millisecond inside that day.        *)
(***************************************************************************)
EXTENDS Integers, Sequences, FiniteSets, TLC

(***************************************************************************)
(* Bounds of the model.                                                    *)
(***************************************************************************)
FirstYear == 2023
LastYear == 2024
MaxBatch == 2
MaxCmds == 2

\* 23:59:59.999 as a millisecond of the day
LastMs == ((23 * 60 + 59) * 60 + 59) * 1000 + 999

Years == FirstYear..LastYear
\* years a computed date can fall in: one cycle before / two months after
CalYears == (FirstYear - 1)..(LastYear + 1)

(***************************************************************************)
(* The platform's Date arithmetic (ECMAScript MakeDay / MakeDate), as far  *)
(* as the provider uses it: new Date(y, m, d, ...), getFullYear, getMonth, *)
(* getDate, setMonth and comparison.                                       *)
(***************************************************************************)
IsLeap(y) == (y % 4 = 0 /\ y % 100 # 0) \/ y % 400 = 0

DaysInMonth(y, m) ==
    IF m = 1 THEN (IF IsLeap(y) THEN 29 ELSE 28)
    ELSE IF m \in {3, 5, 8, 10} THEN 30 ELSE 31

LeapsBefore(y) == ((y - 1) \div 4) - ((y - 1) \div 100) + ((y - 1) \div 400)

RECURSIVE DaysBeforeMonth(_, _)
DaysBeforeMonth(y, m) ==
    IF m = 0 THEN 0 ELSE DaysBeforeMonth(y, m - 1) + DaysInMonth(y, m - 1)

\* day number of day 1 of month m (0..11) of year y
MonthStartOf(y, m) ==
    365 * (y - 2000) + (LeapsBefore(y) - LeapsBefore(2000))
        + DaysBeforeMonth(y, m)

MonthStartTable ==
    [y \in (FirstYear - 2)..(LastYear + 2) |-> [m \in 0..11 |-> MonthStartOf(y, m)]]

MonthStart(y, m) == MonthStartTable[y][m]

\* new Date(year, month, day, 0, 0, 0, ms): month and day outside their
\* ranges carry into the neighbouring years and months
MakeDate(year, month, day, ms) ==
    LET ym == year * 12 + month
        y  == ym \div 12
        m  == ym % 12
    IN  [day |-> MonthStart(y, m) + day - 1, ms |-> ms]

\* the calendar date of every day number of CalYears
CivilTable ==
    [d \in MonthStart(FirstYear - 1, 0)..(MonthStart(LastYear + 2, 0) - 1) |->
        LET y == CHOOSE yy \in CalYears :
                    MonthStart(yy, 0) <= d /\ d < MonthStart(yy + 1, 0)
            m == CHOOSE mm \in 0..11 :
                    /\ MonthStart(y, mm) <= d
                    /\ d < MonthStart(y, mm) + DaysInMonth(y, mm)
        IN  [year |-> y, month |-> m, date |-> d - MonthStart(y, m) + 1]]

getFullYear(t) == CivilTable[t.day].year

getMonth(t) == CivilTable[t.day].month

getDate(t) == CivilTable[t.day].date

\* date.setMonth(m): same day-of-month and time of day, month replaced
setMonth(t, m) == MakeDate(getFullYear(t), m, getDate(t), t.ms)

\* date.toISOString().split("T")[0] and new Date("YYYY-MM-DD"), with the
\* day number standing for the date string: the string names the day of
\* the instant, and parses to the first instant of that day
toISODate(t) == t.day

parseISODate(d) == [day |-> d, ms |-> 0]

Before(a, b) == a.day < b.day \/ (a.day = b.day /\ a.ms < b.ms)
AtMost(a, b) == a = b \/ Before(a, b)

\* the instant one millisecond after t
PlusOneMs(t) ==
    IF t.ms = LastMs THEN [day |-> t.day + 1, ms |-> 0]
    ELSE [day |-> t.day, ms |-> t.ms + 1]

\* Timestamp.fromDate / Timestamp.toDate: whole seconds and nanoseconds
TimestampFromDate(t) ==
    [day |-> t.day, seconds |-> t.ms \div 1000,
     nanoseconds |-> (t.ms % 1000) * 1000000]

TimestampToDate(ts) ==
    [day |-> ts.day, ms |-> ts.seconds * 1000 + (ts.nanoseconds \div 1000000)]

(***************************************************************************)
(* State of the provider and of the store it talks to.                     *)
(***************************************************************************)
VARIABLES
    today,            \* the real-world instant, as new Date() returns it
    currentUser,      \* the signed-in user, or NoUser
    currentMonth,     \* reference month (0..11) of the viewed period
    currentYear,      \* reference year of the viewed period
    currentDay,       \* reference day of the daily view
    cycleType,        \* "calendar" or "custom"
    customStartDay,   \* custom cycle: start day of the reference month
    customEndDay,     \* custom cycle: end day of the following month
    loading,          \* the provider's loading flag
    categories,       \* store: the user's category documents, in query order
    transactions,     \* store: the set of the user's transaction documents
    calls,            \* the command invocations, one record per slot
    issued,           \* number of commands and identity changes so far
    listeners,        \* store: the active snapshot subscriptions
    effectDeps,       \* the user the listeners effect last ran for
    mounted,          \* the provider is mounted
    userCategories,   \* the categories of the last snapshot delivered
    rendered,         \* the reference date as the last render saw it
    customDateRange   \* date-range variant: first and last day of the range

vars == <<today, currentUser, currentMonth, currentYear, currentDay, cycleType,
          customStartDay, customEndDay, loading, categories, transactions,
          calls, issued, listeners, effectDeps, mounted, userCategories,
          rendered, customDateRange>>

\* what no command changes: the user and the listeners effect, the
\* reference date, the cycle settings
subscriptions == <<listeners, effectDeps, mounted, userCategories>>

config == <<today, currentUser, currentMonth, currentYear, currentDay,
            cycleType, customStartDay, customEndDay, subscriptions, rendered,
            customDateRange>>

NoUser == "none"

\* what a command's promise has settled to: Pending while it has not,
\* Rejected when an exception escaped the command
Pending == "pending"
RetTrue == "true"
RetFalse == "false"
Rejected == "rejected"

(***************************************************************************)
(* Period Boundary Calculator.                                             *)
(***************************************************************************)
\* the calendar branch with a fixed 30-day month length (a plausible slip)
getCycleBoundariesFixed30(month, year) ==
    IF cycleType = "calendar"
    THEN [start |-> MakeDate(year, month, 1, 0),
          end   |-> MakeDate(year, month, 30, LastMs)]
    ELSE [start |-> MakeDate(year, month, customStartDay, 0),
          end   |-> MakeDate(year, month + 1, customEndDay, LastMs)]

getCycleBoundaries(month, year) ==
    IF cycleType = "calendar"
    THEN [start |-> MakeDate(year, month, 1, 0),
          end   |-> MakeDate(year, month + 1, 0, LastMs)]
    ELSE [start |-> MakeDate(year, month, customStartDay, 0),
          end   |-> MakeDate(year, month + 1, customEndDay, LastMs)]

(***************************************************************************)
(* Surplus Forwarder: eligibility and the two dates.                       *)
(***************************************************************************)
viewedCycle == getCycleBoundaries(currentMonth, currentYear)

\* calendar policy: the viewed month is a past month
isViewedMonthInPast ==
    LET vs == viewedCycle.start
    IN  \/ getFullYear(today) > getFullYear(vs)
        \/ /\ getFullYear(today) = getFullYear(vs)
           /\ getMonth(today) > getMonth(vs)

actualCycle == getCycleBoundaries(getMonth(today), getFullYear(today))

isInCurrentCycle ==
    AtMost(actualCycle.start, today) /\ AtMost(today, actualCycle.end)

prevCycleStartCalc ==
    LET prevCycleStart ==
            setMonth(actualCycle.start, getMonth(actualCycle.start) - 1)
    IN  getCycleBoundaries(getMonth(prevCycleStart),
                           getFullYear(prevCycleStart)).start

isForwardingPrevCycle == viewedCycle.start = prevCycleStartCalc

canForward ==
    IF cycleType = "calendar" THEN isViewedMonthInPast
    ELSE isInCurrentCycle /\ isForwardingPrevCycle

\* roll-in date: today's day number in the month after the viewed end
targetDate ==
    LET ve == viewedCycle.end
        t1 == MakeDate(getFullYear(ve), getMonth(ve) + 1, getDate(today), 0)
    IN  IF getDate(t1) # getDate(today)
        THEN MakeDate(getFullYear(t1), getMonth(t1) + 1, 0, 0)
        ELSE t1

(***************************************************************************)
(* The store collaborator: documents and equality queries.                 *)
(***************************************************************************)
\* query(categoriesRef, where("name", "==", name)): the matching documents
CategoriesNamed(name) == SelectSeq(categories, LAMBDA d : d.name = name)

\* the collection with the fields of document id merged with a new value
WithBudget(id, amount) ==
    [k \in DOMAIN categories |->
        IF categories[k].id = id
        THEN [categories[k] EXCEPT !.budgetAmount = amount]
        ELSE categories[k]]

\* the update written to the other accumulator (a plausible slip)
WithSpentAsBudget(id, amount) == WithBudget(id, amount)

WithSpent(id, amount) ==
    [k \in DOMAIN categories |->
        IF categories[k].id = id
        THEN [categories[k] EXCEPT !.spentAmount = amount]
        ELSE categories[k]]

HasCategoryId(id) == \E k \in DOMAIN categories : categories[k].id = id

\* the identifier the store gives the document that step `step` of entry
\* `entry` of invocation `no` inserts (identifiers are opaque and unique)
DocId(no, entry, step) == 100 * no + 10 * entry + step

\* a transaction document; origin records the invocation that inserted it
TxDoc(type, amount, category, description, date, rollOver, origin, step) ==
    [id |-> DocId(origin[1], origin[2], step),
     type |-> type, amount |-> amount, category |-> category,
     description |-> description, date |-> date, userId |-> currentUser,
     createdAt |-> TimestampFromDate(today), isRollOver |-> rollOver,
     origin |-> origin]

(***************************************************************************)
(* Command invocations.  A slot holds the invocation last started in it;   *)
(* ret is Pending until the command's promise settles.                     *)
(***************************************************************************)
Slots == 1..2

Idle == [kind |-> "idle", ret |-> RetFalse]

InFlight(c) == calls[c].kind # "idle" /\ calls[c].ret = Pending

\* one command at a time: nothing is in flight when the next one is issued
Quiet == \A d \in Slots : ~InFlight(d)

(***************************************************************************)
(* forwardSurplus(surplusData)                                             *)
(***************************************************************************)
\* the skip test with the comparison off by one (a plausible slip)
SkipsEntryStrict(entry) == entry.balance < 0

\* the skip test with an already-forwarded guard: a roll-out of the category
\* dated at the viewed end is in the ledger (a plausible slip: the guard the
\* forwarder does not have)
SkipsEntryForwarded(entry) ==
    \/ entry.balance <= 0
    \/ \E d \in transactions :
          /\ d.isRollOver /\ d.type = "expense"
          /\ d.category = entry.categoryName
          /\ d.date = TimestampFromDate(viewedCycle.end)

\* line 264: if (balance <= 0) return;
SkipsEntry(entry) == entry.balance <= 0

\* the roll-in issued together with the roll-out (a plausible slip: the
\* first insert not awaited)
EntryStartUnawaited(entry) ==
    [pc |-> IF SkipsEntry(entry) THEN "skipped" ELSE "rollin",
     categoryId |-> 0, newSpentAmount |-> 0]

EntryStart(entry) ==
    [pc |-> IF SkipsEntry(entry) THEN "skipped" ELSE "rollout",
     categoryId |-> 0, newSpentAmount |-> 0]

\* Promise.all over the entries, then the try/catch/finally around it
JoinResult(ret, entries) ==
    IF ret # Pending THEN ret
    ELSE IF \E i \in DOMAIN entries : entries[i].pc = "failed" THEN RetFalse
    ELSE IF \A i \in DOMAIN entries : entries[i].pc \in {"done", "skipped"}
         THEN RetTrue
    ELSE Pending

\* the invocation after entry i moved on, and the loading flag with it
FwdStep(c, i, entry) ==
    LET cl  == calls[c]
        es  == [cl.entries EXCEPT ![i] = entry]
        ret == JoinResult(cl.ret, es)
    IN  /\ calls' = [calls EXCEPT ![c] = [cl EXCEPT !.entries = es, !.ret = ret]]
        /\ loading' = IF cl.ret = Pending /\ ret # Pending THEN FALSE
                      ELSE loading

ForwardSurplus(c, surplusData) ==
    /\ ~InFlight(c)
    /\ issued' = issued + 1
    /\ LET go == currentUser # NoUser /\ canForward
           es == IF go THEN [i \in DOMAIN surplusData |->
                                EntryStart(surplusData[i])]
                 ELSE << >>
           ret == IF go THEN JoinResult(Pending, es) ELSE RetFalse
       IN  /\ calls' = [calls EXCEPT ![c] =
                 [kind |-> "forwardSurplus", no |-> issued + 1, ret |-> ret,
                  surplusData |-> surplusData, started |-> go,
                  now |-> today, viewed |-> viewedCycle,
                  before |-> categories,
                  sourceTimestamp |-> TimestampFromDate(viewedCycle.end),
                  targetTimestamp |-> TimestampFromDate(targetDate),
                  entries |-> es]]
           /\ loading' = IF go THEN ret = Pending ELSE loading
    /\ UNCHANGED <<config, categories, transactions>>

FwdPending(c, i, pc) ==
    /\ calls[c].kind = "forwardSurplus"
    /\ i \in DOMAIN calls[c].entries
    /\ calls[c].entries[i].pc = pc

\* lines 267-276: the roll-out expense insert completes
FwdRollOut(c, i) ==
    /\ FwdPending(c, i, "rollout")
    /\ LET cl == calls[c]
           sd == cl.surplusData[i]
       IN  /\ transactions' = transactions \cup
                  {TxDoc("expense", sd.balance, sd.categoryName,
                         "rollout", cl.sourceTimestamp, TRUE,
                         <<cl.no, i>>, 1)}
                  /\ FwdStep(c, i, [cl.entries[i] EXCEPT !.pc = "rollin"])
    /\ UNCHANGED <<config, categories, issued>>

\* lines 279-288: the roll-in income insert completes
FwdRollIn(c, i) ==
    /\ FwdPending(c, i, "rollin")
    /\ LET cl == calls[c]
           sd == cl.surplusData[i]
       IN  /\ transactions' = transactions \cup
                  {TxDoc("income", sd.balance, sd.categoryName,
                         "rollin", cl.targetTimestamp, TRUE,
                         <<cl.no, i>>, 2)}
                  /\ FwdStep(c, i, [cl.entries[i] EXCEPT !.pc = "query"])
    /\ UNCHANGED <<config, categories, issued>>

\* lines 291-298: the category lookup completes
FwdQuery(c, i) ==
    /\ FwdPending(c, i, "query")
    /\ LET cl   == calls[c]
           sd   == cl.surplusData[i]
           docs == CategoriesNamed(sd.categoryName)
       IN  IF docs = << >>
           THEN FwdStep(c, i, [cl.entries[i] EXCEPT !.pc = "done"])
           ELSE FwdStep(c, i,
                    [pc |-> "update", categoryId |-> docs[1].id,
                     newSpentAmount |-> docs[1].spentAmount + sd.balance])
    /\ UNCHANGED <<config, categories, transactions, issued>>

\* lines 300-302: the accumulator update completes (a missing document
\* makes updateDoc reject)
FwdUpdate(c, i) ==
    /\ FwdPending(c, i, "update")
    /\ LET e == calls[c].entries[i]
       IN  IF HasCategoryId(e.categoryId)
           THEN /\ categories' = WithSpent(e.categoryId, e.newSpentAmount)
                /\ FwdStep(c, i, [e EXCEPT !.pc = "done"])
           ELSE /\ categories' = categories
                /\ FwdStep(c, i, [e EXCEPT !.pc = "failed"])
    /\ UNCHANGED <<config, transactions, issued>>

\* the failure undoing what the invocation wrote (a plausible slip: a
\* compensating catch block)
FwdStoreFailsRollingBack(c, i) ==
    /\ calls[c].kind = "forwardSurplus"
    /\ i \in DOMAIN calls[c].entries
    /\ calls[c].entries[i].pc \in {"rollout", "rollin", "query", "update"}
    /\ FwdStep(c, i, [calls[c].entries[i] EXCEPT !.pc = "failed"])
    /\ transactions' = {d \in transactions : d.origin[1] # calls[c].no}
    /\ categories' = calls[c].before
    /\ UNCHANGED <<config, issued>>

\* a store call of entry i rejects: the entry's promise rejects
FwdStoreFails(c, i) ==
    /\ calls[c].kind = "forwardSurplus"
    /\ i \in DOMAIN calls[c].entries
    /\ calls[c].entries[i].pc \in {"rollout", "rollin", "query", "update"}
    /\ FwdStep(c, i, [calls[c].entries[i] EXCEPT !.pc = "failed"])
    /\ UNCHANGED <<config, categories, transactions, issued>>

(***************************************************************************)
(* ExpenseList: the per-category breakdown of the viewed period and the    *)
(* forwarding of the selected categories.                                  *)
(***************************************************************************)
\* ExpenseList.jsx line 69: the period of the per-category breakdown
listCycle == getCycleBoundaries(currentMonth, currentYear)

\* OverviewSection.jsx lines 72-73: the period of the overview totals
overviewCycle ==
    [start |-> MakeDate(currentYear, currentMonth, 1, 0),
     end   |-> MakeDate(currentYear, currentMonth + 1, 0, LastMs)]

\* OverviewSection.jsx lines 96-99: the transactions the totals are over
overviewTransactions ==
    {t \in transactions :
        /\ AtMost(overviewCycle.start, TimestampToDate(t.date))
        /\ AtMost(TimestampToDate(t.date), overviewCycle.end)}

\* the period filter with the end bound exclusive (a plausible slip)
filteredTransactionsExclusive(ledger, cycle) ==
    {t \in ledger :
        /\ AtMost(cycle.start, TimestampToDate(t.date))
        /\ Before(TimestampToDate(t.date), cycle.end)}

\* ExpenseList.jsx lines 76-81
filteredTransactions(ledger, cycle) ==
    {t \in ledger :
        /\ AtMost(cycle.start, TimestampToDate(t.date))
        /\ AtMost(TimestampToDate(t.date), cycle.end)}

RECURSIVE SumAmounts(_)
SumAmounts(docs) ==
    IF docs = {} THEN 0
    ELSE LET d == CHOOSE x \in docs : TRUE
         IN  d.amount + SumAmounts(docs \ {d})

\* ExpenseList.jsx lines 99-121: the summary entry of one category
categorySummary(ledger, cycle, name) ==
    LET mine    == {t \in filteredTransactions(ledger, cycle) : t.category = name}
        income  == SumAmounts({t \in mine : t.type = "income"})
        expense == SumAmounts({t \in mine : t.type = "expense"})
    IN  [income |-> income, expense |-> expense, balance |-> income - expense]

\* ExpenseList.jsx lines 132-143: the categories the list shows
ListedCategories ==
    {name \in {t.category : t \in filteredTransactions(transactions, viewedCycle)} :
        \/ categorySummary(transactions, viewedCycle, name).income > 0
        \/ categorySummary(transactions, viewedCycle, name).expense > 0}

\* ExpenseList.jsx lines 203-229: the selection is not empty and confirmed
handleForwardSelected(c, selectedCategories) ==
    /\ selectedCategories # << >>
    /\ \A i \in DOMAIN selectedCategories :
          selectedCategories[i] \in ListedCategories
    /\ ForwardSurplus(c,
          [i \in DOMAIN selectedCategories |->
              [categoryName |-> selectedCategories[i],
               balance |-> categorySummary(transactions, viewedCycle,
                                           selectedCategories[i]).balance]])

(***************************************************************************)
(* addTransaction(transaction)                                             *)
(***************************************************************************)
\* new Date("YYYY-MM-DD") of the form's date field
DateFromInput(d) == MakeDate(d.year, d.month - 1, d.date, 0)

AddTransaction(c, transaction, via) ==
    /\ ~InFlight(c)
    /\ issued' = issued + 1
    /\ calls' = [calls EXCEPT ![c] =
          [kind |-> "addTransaction", no |-> issued + 1, via |-> via,
           ret |-> IF currentUser = NoUser THEN RetFalse ELSE Pending,
           pc |-> IF currentUser = NoUser THEN "done" ELSE "insert",
           transaction |-> transaction, before |-> categories,
           categoryId |-> 0, newAmount |-> 0]]
    /\ loading' = IF currentUser = NoUser THEN loading ELSE TRUE
    /\ UNCHANGED <<config, categories, transactions>>

AddTxPending(c, pc) == calls[c].kind = "addTransaction" /\ calls[c].pc = pc

\* lines 362-367: the transaction insert completes
AddTxInsert(c) ==
    /\ AddTxPending(c, "insert")
    /\ LET t == calls[c].transaction
       IN  transactions' = transactions \cup
               {TxDoc(t.type, t.amount, t.category, t.description,
                      TimestampFromDate(DateFromInput(t.date)), FALSE,
                      <<calls[c].no, 0>>, 1)}
    /\ calls' = [calls EXCEPT ![c].pc = "query"]
    /\ UNCHANGED <<config, categories, loading, issued>>

\* the accumulator with the budget and spent fields swapped (a plausible slip)
AccumulatedSwapped(type, data, amount) ==
    IF type = "income" THEN data.spentAmount + amount
    ELSE data.budgetAmount + amount

\* lines 381-391: the new value of the accumulator of a transaction type
Accumulated(type, data, amount) ==
    IF type = "income" THEN data.budgetAmount + amount
    ELSE data.spentAmount + amount

\* lines 370-380: the category lookup completes
AddTxQuery(c) ==
    /\ AddTxPending(c, "query")
    /\ LET t    == calls[c].transaction
           docs == CategoriesNamed(t.category)
       IN  IF docs = << >>
           THEN /\ calls' = [calls EXCEPT ![c].pc = "done", ![c].ret = RetTrue]
                /\ loading' = FALSE
           ELSE /\ calls' = [calls EXCEPT
                      ![c].pc = "update",
                      ![c].categoryId = docs[1].id,
                      ![c].newAmount = Accumulated(t.type, docs[1], t.amount)]
                /\ loading' = loading
    /\ UNCHANGED <<config, categories, transactions, issued>>

\* the update as an atomic increment in the store (a plausible slip: the
\* read-then-write replaced by increment(amount))
AddTxUpdateIncrement(c) ==
    /\ AddTxPending(c, "update")
    /\ LET cl == calls[c]
           t  == cl.transaction
       IN  IF HasCategoryId(cl.categoryId)
           THEN /\ categories' =
                      [k \in DOMAIN categories |->
                          IF categories[k].id # cl.categoryId THEN categories[k]
                          ELSE IF t.type = "income"
                          THEN [categories[k] EXCEPT !.budgetAmount = @ + t.amount]
                          ELSE [categories[k] EXCEPT !.spentAmount = @ + t.amount]]
                /\ calls' = [calls EXCEPT ![c].pc = "done", ![c].ret = RetTrue]
           ELSE /\ categories' = categories
                /\ calls' = [calls EXCEPT ![c].pc = "done", ![c].ret = RetFalse]
    /\ loading' = FALSE
    /\ UNCHANGED <<config, transactions, issued>>

\* lines 383-390: the accumulator update completes
AddTxUpdate(c) ==
    /\ AddTxPending(c, "update")
    /\ LET cl == calls[c]
       IN  IF HasCategoryId(cl.categoryId)
           THEN /\ categories' =
                      IF cl.transaction.type = "income"
                      THEN WithBudget(cl.categoryId, cl.newAmount)
                      ELSE WithSpent(cl.categoryId, cl.newAmount)
                /\ calls' = [calls EXCEPT ![c].pc = "done", ![c].ret = RetTrue]
           ELSE /\ categories' = categories
                /\ calls' = [calls EXCEPT ![c].pc = "done", ![c].ret = RetFalse]
    /\ loading' = FALSE
    /\ UNCHANGED <<config, transactions, issued>>

\* lines 394-399: a store call rejects inside the try block
AddTxFails(c) ==
    /\ calls[c].kind = "addTransaction"
    /\ calls[c].pc \in {"insert", "query", "update"}
    /\ calls' = [calls EXCEPT ![c].pc = "done", ![c].ret = RetFalse]
    /\ loading' = FALSE
    /\ UNCHANGED <<config, categories, transactions, issued>>

(***************************************************************************)
(* handleSubmit of AddTransactionModal: the form in front of               *)
(* addTransaction.  amount is the text of the number field.                *)
(***************************************************************************)
\* parseFloat of the texts the amount field is tried with
parseFloat(text) ==
    CASE text = "0" -> 0
      [] text = "-1" -> 0 - 1
      [] text = "2" -> 2
      [] text = "3" -> 3

\* the amount test with the comparison off by one (a plausible slip)
FormInvalidStrict(form) ==
    \/ form.amount = ""
    \/ form.category = ""
    \/ parseFloat(form.amount) < 0

\* AddTransactionModal.jsx line 198
FormInvalid(form) ==
    \/ form.amount = ""
    \/ form.category = ""
    \/ parseFloat(form.amount) <= 0

handleSubmit(c, form) ==
    IF FormInvalid(form)
    THEN /\ ~InFlight(c)
         /\ issued' = issued + 1
         /\ calls' = [calls EXCEPT ![c] =
               [kind |-> "handleSubmit", no |-> issued + 1, ret |-> RetFalse,
                form |-> form, before |-> categories]]
         /\ UNCHANGED <<config, loading, categories, transactions>>
    ELSE AddTransaction(c,
             [type |-> form.type, amount |-> parseFloat(form.amount),
              category |-> form.category, date |-> form.date,
              description |-> "user"], "form")

(***************************************************************************)
(* addCategory(name, budgetAmount)                                         *)
(***************************************************************************)
\* String.prototype.trim on the names the form is tried with
trim(name) ==
    CASE name = " Food " -> "Food"
      [] name = " Misc" -> "Misc"
      [] name = " " -> ""
      [] OTHER -> name

addCategory(c, name, budgetAmount) ==
    /\ ~InFlight(c)
    /\ issued' = issued + 1
    /\ LET refused == currentUser = NoUser \/ trim(name) = ""
       IN  calls' = [calls EXCEPT ![c] =
              [kind |-> "addCategory", no |-> issued + 1,
               ret |-> IF refused THEN RetFalse ELSE Pending,
               pc |-> IF refused THEN "done" ELSE "check",
               name |-> name, budgetAmount |-> budgetAmount,
               before |-> categories]]
    /\ UNCHANGED <<config, loading, categories, transactions>>

AddCatPending(c, pc) == calls[c].kind = "addCategory" /\ calls[c].pc = pc

\* the duplicate test on the name as typed, not trimmed (a plausible slip)
NameTakenUntrimmed(name) == CategoriesNamed(name) # << >>

\* lines 410-413: the equality lookup finds a category of that name
NameTaken(name) == CategoriesNamed(trim(name)) # << >>

\* lines 411-418: the duplicate lookup completes
AddCatCheck(c) ==
    /\ AddCatPending(c, "check")
    /\ IF NameTaken(calls[c].name)
       THEN /\ calls' = [calls EXCEPT ![c].pc = "done", ![c].ret = RetFalse]
            /\ loading' = loading
       ELSE /\ calls' = [calls EXCEPT ![c].pc = "insert"]
            /\ loading' = TRUE
    /\ UNCHANGED <<config, categories, transactions, issued>>

\* line 411: the lookup rejects; it is awaited outside the try block, so
\* the rejection leaves addCategory
AddCatCheckFails(c) ==
    /\ AddCatPending(c, "check")
    /\ calls' = [calls EXCEPT ![c].pc = "done", ![c].ret = Rejected]
    /\ UNCHANGED <<config, loading, categories, transactions, issued>>

\* the insert keyed by the category's name, replacing a document of that
\* name (a plausible slip: setDoc under the name instead of addDoc)
AddCatInsertByName(c) ==
    /\ AddCatPending(c, "insert")
    /\ LET cl  == calls[c]
           doc == [id |-> DocId(cl.no, 0, 1), name |-> trim(cl.name),
                   budgetAmount |-> cl.budgetAmount, spentAmount |-> 0]
       IN  /\ categories' =
                 IF NameTaken(cl.name)
                 THEN [k \in DOMAIN categories |->
                          IF categories[k].name = doc.name THEN doc
                          ELSE categories[k]]
                 ELSE Append(categories, doc)
           /\ IF cl.budgetAmount > 0
              THEN /\ calls' = [calls EXCEPT ![c].pc = "initial"]
                   /\ loading' = loading
              ELSE /\ calls' = [calls EXCEPT ![c].pc = "done",
                                             ![c].ret = RetTrue]
                   /\ loading' = FALSE
    /\ UNCHANGED <<config, transactions, issued>>

\* lines 420-426: the category insert completes
AddCatInsert(c) ==
    /\ AddCatPending(c, "insert")
    /\ LET cl == calls[c]
       IN  /\ categories' = Append(categories,
                  [id |-> DocId(cl.no, 0, 1), name |-> trim(cl.name),
                   budgetAmount |-> cl.budgetAmount, spentAmount |-> 0])
           /\ IF cl.budgetAmount > 0
              THEN /\ calls' = [calls EXCEPT ![c].pc = "initial"]
                   /\ loading' = loading
              ELSE /\ calls' = [calls EXCEPT ![c].pc = "done",
                                             ![c].ret = RetTrue]
                   /\ loading' = FALSE
    /\ UNCHANGED <<config, transactions, issued>>

\* lines 428-441: the initial-budget income insert completes
AddCatInitial(c) ==
    /\ AddCatPending(c, "initial")
    /\ LET cl == calls[c]
       IN  transactions' = transactions \cup
               {TxDoc("income", cl.budgetAmount, trim(cl.name),
                      "initial", TimestampFromDate(today), FALSE,
                      <<cl.no, 0>>, 2)}
    /\ calls' = [calls EXCEPT ![c].pc = "done", ![c].ret = RetTrue]
    /\ loading' = FALSE
    /\ UNCHANGED <<config, categories, issued>>

\* lines 442-447: an insert rejects inside the try block
AddCatFails(c) ==
    /\ calls[c].kind = "addCategory"
    /\ calls[c].pc \in {"insert", "initial"}
    /\ calls' = [calls EXCEPT ![c].pc = "done", ![c].ret = RetFalse]
    /\ loading' = FALSE
    /\ UNCHANGED <<config, categories, transactions, issued>>

(***************************************************************************)
(* deleteTransaction(transactionId), deleteCategory(categoryId)            *)
(***************************************************************************)
Delete(c, kind, id, refused) ==
    /\ ~InFlight(c)
    /\ issued' = issued + 1
    /\ calls' = [calls EXCEPT ![c] =
          [kind |-> kind, no |-> issued + 1, id |-> id,
           ret |-> IF refused THEN RetFalse ELSE Pending,
           pc |-> IF refused THEN "done" ELSE "delete",
           before |-> categories, ledger |-> transactions]]
    /\ loading' = IF refused THEN loading ELSE TRUE
    /\ UNCHANGED <<config, categories, transactions>>

deleteTransaction(c, transactionId) ==
    Delete(c, "deleteTransaction", transactionId, currentUser = NoUser)

\* categoryId 0 stands for a missing (falsy) identifier
deleteCategory(c, categoryId) ==
    Delete(c, "deleteCategory", categoryId,
           currentUser = NoUser \/ categoryId = 0)

\* the delete taking the amount back out of the category's accumulator (a
\* plausible slip: the inverse of addTransaction)
DelTxDoneReversing(c) ==
    /\ calls[c].kind = "deleteTransaction" /\ calls[c].pc = "delete"
    /\ transactions' = {d \in transactions : d.id # calls[c].id}
    /\ categories' =
          [k \in DOMAIN categories |->
              LET gone == {d \in transactions :
                              /\ d.id = calls[c].id
                              /\ d.category = categories[k].name}
              IN  IF gone = {} THEN categories[k]
                  ELSE LET d == CHOOSE x \in gone : TRUE
                       IN  IF d.type = "income"
                           THEN [categories[k] EXCEPT !.budgetAmount = @ - d.amount]
                           ELSE [categories[k] EXCEPT !.spentAmount = @ - d.amount]]
    /\ calls' = [calls EXCEPT ![c].pc = "done", ![c].ret = RetTrue]
    /\ loading' = FALSE
    /\ UNCHANGED <<config, issued>>

\* line 459: deleteDoc completes (deleting a missing document succeeds)
DelTxDone(c) ==
    /\ calls[c].kind = "deleteTransaction" /\ calls[c].pc = "delete"
    /\ transactions' = {d \in transactions : d.id # calls[c].id}
    /\ calls' = [calls EXCEPT ![c].pc = "done", ![c].ret = RetTrue]
    /\ loading' = FALSE
    /\ UNCHANGED <<config, categories, issued>>

\* line 478
DelCatDone(c) ==
    /\ calls[c].kind = "deleteCategory" /\ calls[c].pc = "delete"
    /\ categories' = SelectSeq(categories, LAMBDA d : d.id # calls[c].id)
    /\ calls' = [calls EXCEPT ![c].pc = "done", ![c].ret = RetTrue]
    /\ loading' = FALSE
    /\ UNCHANGED <<config, transactions, issued>>

\* lines 461-466, 480-485: deleteDoc rejects
DeleteFails(c) ==
    /\ calls[c].kind \in {"deleteTransaction", "deleteCategory"}
    /\ calls[c].pc = "delete"
    /\ calls' = [calls EXCEPT ![c].pc = "done", ![c].ret = RetFalse]
    /\ loading' = FALSE
    /\ UNCHANGED <<config, categories, transactions, issued>>

(***************************************************************************)
(* The listeners effect (lines 78-150): it runs after a render in which    *)
(* currentUser differs from the user it last ran for; the cleanup it       *)
(* returned runs first, and on unmount.                                    *)
(***************************************************************************)
Users == {"u1", "u2"}

Listener(collection, uid) == [collection |-> collection, uid |-> uid]

\* the cleanup keeps every subscription (a plausible slip: no function
\* returned from the effect)
CleanupNothing(active) == active

\* lines 146-149: the unsubscribe functions of the run for effectDeps
Cleanup(active) == {l \in active : l.uid # effectDeps}

\* lines 113-144: the subscriptions the effect opens for user u; the
\* transactions listener is missing when its set-up throws (line 141)
Subscribed(u, transactionsOk) ==
    IF u = NoUser THEN {}
    ELSE {Listener("categories", u)} \cup
         (IF transactionsOk THEN {Listener("transactions", u)} ELSE {})

\* the auth context delivers another user, or none
\* the reference date and the cycle settings
view == <<today, currentMonth, currentYear, currentDay, cycleType,
          customStartDay, customEndDay, rendered, customDateRange>>

\* lines 65-75: the starter list (its first entries)
defaultCategories == <<"Food", "Rent">>

AuthChange(u) ==
    /\ u # currentUser
    /\ currentUser' = u
    /\ issued' = issued + 1
    /\ UNCHANGED <<view, subscriptions, loading, categories, transactions, calls>>

\* lines 93-111: the invocation of checkAndPopulateCategories the effect
\* starts and does not await; delivered records that the categories
\* listener of this run has delivered a snapshot
Populating(c) == calls[c].kind = "checkAndPopulateCategories"

RunEffect(transactionsOk) ==
    /\ mounted
    /\ effectDeps # currentUser
    /\ listeners' = Cleanup(listeners) \cup Subscribed(currentUser, transactionsOk)
    /\ effectDeps' = currentUser
    /\ IF currentUser = NoUser
       THEN /\ userCategories' = << >>
            /\ loading' = FALSE
            /\ calls' = calls
       ELSE /\ ~InFlight(2)
            /\ userCategories' = userCategories
            /\ loading' = transactionsOk
            /\ calls' = [calls EXCEPT ![2] =
                  [kind |-> "checkAndPopulateCategories", no |-> issued,
                   ret |-> Pending, pc |-> "lookup", uid |-> currentUser,
                   next |-> 1, empty |-> FALSE, delivered |-> FALSE]]
    /\ UNCHANGED <<view, currentUser, mounted, categories, transactions, issued>>

\* line 95: getDocs(categoriesCol) answers
PopulateLookup(c) ==
    /\ Populating(c) /\ calls[c].pc = "lookup"
    /\ calls' = IF categories = << >>
                THEN [calls EXCEPT ![c].pc = "insert", ![c].empty = TRUE]
                ELSE [calls EXCEPT ![c].pc = "done", ![c].ret = RetTrue]
    /\ UNCHANGED <<config, loading, categories, transactions, issued>>

\* lines 98-104: the next awaited addDoc of the loop completes
PopulateInsert(c) ==
    /\ Populating(c) /\ calls[c].pc = "insert"
    /\ LET k == calls[c].next
       IN  /\ categories' = Append(categories,
                  [id |-> DocId(calls[c].no, k, 1), name |-> defaultCategories[k],
                   budgetAmount |-> 0, spentAmount |-> 0])
           /\ calls' = IF k = Len(defaultCategories)
                       THEN [calls EXCEPT ![c].pc = "done", ![c].ret = RetTrue]
                       ELSE [calls EXCEPT ![c].next = k + 1]
    /\ UNCHANGED <<config, loading, transactions, issued>>

\* lines 106-108: a store call of the population rejects and is logged
PopulateFails(c) ==
    /\ Populating(c) /\ calls[c].pc \in {"lookup", "insert"}
    /\ calls' = [calls EXCEPT ![c].pc = "done", ![c].ret = RetFalse]
    /\ UNCHANGED <<config, loading, categories, transactions, issued>>

\* lines 113-120: the categories listener delivers the collection
OnCategoriesSnapshot ==
    /\ \E l \in listeners : l.collection = "categories"
    /\ userCategories' = categories
    /\ loading' = FALSE
    /\ calls' = [c \in Slots |->
                    IF Populating(c) /\ calls[c].uid = effectDeps
                    THEN [calls[c] EXCEPT !.delivered = TRUE]
                    ELSE calls[c]]
    /\ UNCHANGED <<view, currentUser, listeners, effectDeps, mounted,
                   categories, transactions, issued>>

\* lines 121-124, 137-140: a listener reports an error
OnListenerError(collection) ==
    /\ \E l \in listeners : l.collection = collection
    /\ loading
    /\ loading' = FALSE
    /\ UNCHANGED <<config, categories, transactions, calls, issued>>

Unmount ==
    /\ mounted
    /\ mounted' = FALSE
    /\ listeners' = Cleanup(listeners)
    /\ UNCHANGED <<view, currentUser, effectDeps, userCategories, loading,
                   categories, transactions, calls, issued>>

(***************************************************************************)
(* changeMonth(delta), changeDay(delta).  The functions are closures of    *)
(* the last render: they read the reference date that render saw, except   *)
(* for the argument of a functional state update.                          *)
(***************************************************************************)
\* lines 320-334: the functional update of the month, with the year of
\* the closure
MovedCalendarMonth(prev, seen, delta) ==
    LET newMonth == prev.month + delta
    IN  IF newMonth < 0 THEN [month |-> 11, year |-> seen.year - 1]
        ELSE IF newMonth > 11 THEN [month |-> 0, year |-> seen.year + 1]
        ELSE [month |-> newMonth, year |-> seen.year]

\* lines 319-341: the reference month and year changeMonth sets when the
\* month state is prev and its closure saw the reference date seen
MovedMonthFrom(prev, seen, delta) ==
    IF cycleType = "calendar"
    THEN MovedCalendarMonth(prev, seen, delta)
    ELSE LET newStartDate ==
                 MakeDate(seen.year, seen.month + delta, customStartDay, 0)
         IN  [month |-> getMonth(newStartDate),
              year |-> getFullYear(newStartDate)]

MovedMonth(delta) ==
    MovedMonthFrom([month |-> currentMonth, year |-> currentYear], rendered, delta)

\* what a render hands to the closures it creates
Seen ==
    [month |-> currentMonth, year |-> currentYear, day |-> currentDay,
     range |-> customDateRange]

\* the provider renders: the closures see the current state
Render ==
    /\ rendered # Seen
    /\ rendered' = Seen
    /\ UNCHANGED <<today, currentUser, currentMonth, currentYear, currentDay,
                   cycleType, customStartDay, customEndDay, subscriptions,
                   customDateRange,
                   loading, categories, transactions, calls, issued>>

changeMonth(c, delta) ==
    /\ ~InFlight(c)
    /\ MovedMonth(delta).year \in Years
    /\ currentMonth' = MovedMonth(delta).month
    /\ currentYear' = MovedMonth(delta).year
    /\ currentDay' = IF cycleType = "calendar" THEN 1 ELSE currentDay
    /\ issued' = issued + 1
    /\ calls' = [calls EXCEPT ![c] =
          [kind |-> "changeMonth", no |-> issued + 1, ret |-> RetTrue,
           delta |-> delta,
           from |-> [month |-> currentMonth, year |-> currentYear],
           seen |-> rendered]]
    /\ UNCHANGED <<today, currentUser, cycleType, customStartDay, customEndDay,
                   subscriptions, rendered, customDateRange, loading,
                   categories, transactions>>

\* lines 344-351
changeDay(c, delta) ==
    /\ ~InFlight(c)
    /\ LET currentDate ==
               MakeDate(rendered.year, rendered.month, rendered.day + delta, 0)
       IN  /\ getFullYear(currentDate) \in Years
           /\ currentYear' = getFullYear(currentDate)
           /\ currentMonth' = getMonth(currentDate)
           /\ currentDay' = getDate(currentDate)
    /\ issued' = issued + 1
    /\ calls' = [calls EXCEPT ![c] =
          [kind |-> "changeDay", no |-> issued + 1, ret |-> RetTrue,
           delta |-> delta,
           from |-> [month |-> currentMonth, year |-> currentYear],
           seen |-> rendered]]
    /\ UNCHANGED <<today, currentUser, cycleType, customStartDay, customEndDay,
                   subscriptions, rendered, customDateRange, loading,
                   categories, transactions>>

(***************************************************************************)
(* changeMonth(delta) of the date-range variant of the provider            *)
(* (OverviewSection.jsx lines 1077-1113): the calendar month always moves, *)
(* and in custom mode the range of dates moves by its own extent.          *)
(***************************************************************************)
\* lines 1098-1111.  The two dates are first instants of days, so their
\* difference rangeInMs is a whole number of days and is kept in days.
ShiftedRange(range, delta) ==
    LET currentStart == parseISODate(range.start)
        currentEnd   == parseISODate(range.end)
        rangeInDays  == currentEnd.day - currentStart.day
        newStart == [day |-> currentStart.day + delta * rangeInDays, ms |-> 0]
        newEnd   == [day |-> currentEnd.day + delta * rangeInDays, ms |-> 0]
    IN  [start |-> toISODate(newStart), end |-> toISODate(newEnd)]

changeMonthRange(c, delta) ==
    /\ ~InFlight(c)
    /\ LET moved == MovedCalendarMonth([month |-> currentMonth,
                                         year |-> currentYear], rendered, delta)
           range == ShiftedRange(rendered.range, delta)
       IN  /\ moved.year \in Years
           /\ range.start \in DOMAIN CivilTable
           /\ range.end \in DOMAIN CivilTable
           /\ currentMonth' = moved.month
           /\ currentYear' = moved.year
           /\ currentDay' = 1
           /\ customDateRange' = IF cycleType = "custom" THEN range
                                 ELSE customDateRange
    /\ issued' = issued + 1
    /\ calls' = [calls EXCEPT ![c] =
          [kind |-> "changeMonthRange", no |-> issued + 1, ret |-> RetTrue,
           delta |-> delta,
           from |-> [month |-> currentMonth, year |-> currentYear],
           seen |-> rendered, range |-> customDateRange]]
    /\ UNCHANGED <<today, currentUser, cycleType, customStartDay, customEndDay,
                   subscriptions, rendered, loading, categories, transactions>>

(***************************************************************************)
(* Initial states.                                                         *)
(***************************************************************************)
User == "u1"
CategoryNames == {"Food", "Rent"}

Category(id, name) ==
    [id |-> id, name |-> name, budgetAmount |-> 0, spentAmount |-> 0]

\* OverviewSection.jsx lines 622-631, nothing saved: the calendar month of
\* today, as the dates of its first and its last day
defaultDateRange ==
    [start |-> toISODate(MakeDate(getFullYear(today), getMonth(today), 1, 0)),
     end   |-> toISODate(MakeDate(getFullYear(today), getMonth(today) + 1, 0, 0))]

\* a signed-in user whose starter categories are down to Food and Rent
InitStore ==
    /\ categories = <<Category(1, "Food"), Category(2, "Rent")>>
    /\ transactions = {}
    /\ calls = [c \in Slots |-> Idle]
    /\ loading = FALSE
    /\ issued = 0
    /\ mounted = TRUE
    /\ effectDeps = currentUser
    /\ listeners = Subscribed(currentUser, TRUE)
    /\ userCategories = IF currentUser = NoUser THEN << >> ELSE categories
    /\ customDateRange = defaultDateRange
    /\ rendered = Seen

InitConfig(todays, days) ==
    /\ today \in todays
    /\ currentMonth \in 0..11
    /\ currentYear \in Years
    /\ cycleType \in {"calendar", "custom"}
    /\ currentDay = IF /\ cycleType = "calendar"
                       /\ <<currentMonth, currentYear>> #
                              <<getMonth(today), getFullYear(today)>>
                    THEN 1 ELSE getDate(today)
    /\ IF cycleType = "calendar"
       THEN customStartDay = 15 /\ customEndDay = 14
       ELSE customStartDay \in days /\ customEndDay \in days

(***************************************************************************)
(* SpecNav: one forwardSurplus invocation, no store failure, from every    *)
(* combination of today, viewed period and cycle configuration.            *)
(***************************************************************************)
NavTodayDays == {1, 14, 15, 16, 28, 29, 30, 31}
NavCustomDays == {1, 14, 15, 31}
NavTodays ==
    {MakeDate(y, m, d, ms) :
        y \in Years, m \in 0..11, d \in NavTodayDays, ms \in {0, LastMs}}
NavSurplus == <<[categoryName |-> "Food", balance |-> 2]>>

InitNav ==
    /\ InitConfig(NavTodays, NavCustomDays)
    /\ currentUser = User
    /\ InitStore

NextNav ==
    \/ issued = 0 /\ ForwardSurplus(1, NavSurplus)
    \/ FwdRollOut(1, 1)
    \/ FwdRollIn(1, 1)
    \/ FwdQuery(1, 1)
    \/ FwdUpdate(1, 1)

SpecNav == InitNav /\ [][NextNav]_vars

(***************************************************************************)
(* Spec: one session issuing up to MaxCmds commands, each after the        *)
(* previous one has settled; every store call may reject.                  *)
(***************************************************************************)
StoreTodays == {MakeDate(2024, 2, 20, 0)}

Init ==
    /\ today \in StoreTodays
    /\ cycleType \in {"calendar", "custom"}
    /\ customStartDay = 15
    /\ customEndDay = 14
    /\ currentYear = getFullYear(today)
    /\ currentMonth \in {getMonth(today), getMonth(today) - 1}
    /\ currentDay = IF cycleType = "calendar" /\ currentMonth # getMonth(today)
                    THEN 1 ELSE getDate(today)
    /\ currentUser \in {User, NoUser}
    /\ InitStore

Types == {"income", "expense"}
InputDate == [year |-> 2024, month |-> 3, date |-> 15]
\* a date inside the period viewed one month back, in either cycle mode
EarlierDate == [year |-> 2024, month |-> 2, date |-> 20]

\* surplusData: batches of entries of distinct category names, as the
\* check boxes of ExpenseList give them; Misc names no category
SurplusEntries ==
    {[categoryName |-> "Food", balance |-> 0 - 1],
     [categoryName |-> "Food", balance |-> 0],
     [categoryName |-> "Food", balance |-> 2],
     [categoryName |-> "Rent", balance |-> 3],
     [categoryName |-> "Misc", balance |-> 2]}

RECURSIVE Batches(_)
Batches(n) ==
    IF n = 0 THEN {<< >>}
    ELSE LET shorter == Batches(n - 1)
         IN  shorter \cup
             {Append(b, e) :
                 b \in {x \in shorter : Len(x) = n - 1}, e \in SurplusEntries}

SurplusInputs ==
    {b \in Batches(MaxBatch) :
        /\ b # << >>
        /\ \A i, j \in DOMAIN b : i # j => b[i].categoryName # b[j].categoryName}

\* the check boxes ticked in ExpenseList, in the order ticked
Selections ==
    {<<"Food">>, <<"Misc">>, <<"Food", "Misc">>, <<"Misc", "Food">>}

Transactions ==
    [type : Types, amount : {0, 3}, category : {"Food", "Misc"},
     date : {InputDate, EarlierDate}, description : {"user"}]

Forms ==
    [type : Types, amount : {"", "0", "-1", "2"}, category : {"", "Food"},
     date : {InputDate}]

MayIssue == Quiet /\ issued < MaxCmds

Next ==
    \/ \E sd \in SurplusInputs : MayIssue /\ ForwardSurplus(1, sd)
    \/ \E sel \in Selections : MayIssue /\ handleForwardSelected(1, sel)
    \/ \E i \in 1..MaxBatch : FwdRollOut(1, i)
    \/ \E i \in 1..MaxBatch : FwdRollIn(1, i)
    \/ \E i \in 1..MaxBatch : FwdQuery(1, i)
    \/ \E i \in 1..MaxBatch : FwdUpdate(1, i)
    \/ \E i \in 1..MaxBatch : FwdStoreFails(1, i)
    \/ \E t \in Transactions : MayIssue /\ AddTransaction(1, t, "direct")
    \/ \E f \in Forms : MayIssue /\ handleSubmit(1, f)
    \/ AddTxInsert(1)
    \/ AddTxQuery(1)
    \/ AddTxUpdate(1)
    \/ AddTxFails(1)
    \/ \E name \in {"Food", " Food ", "Misc", " "}, budget \in {0, 5} :
           MayIssue /\ addCategory(1, name, budget)
    \/ AddCatCheck(1)
    \/ AddCatCheckFails(1)
    \/ AddCatInsert(1)
    \/ AddCatInitial(1)
    \/ AddCatFails(1)
    \/ \E id \in {0} \cup {d.id : d \in transactions} :
           MayIssue /\ deleteTransaction(1, id)
    \/ \E id \in {0} \cup {categories[k].id : k \in DOMAIN categories} :
           MayIssue /\ deleteCategory(1, id)
    \/ DelTxDone(1)
    \/ DelCatDone(1)
    \/ DeleteFails(1)

Spec == Init /\ [][Next]_vars

(***************************************************************************)
(* SpecLedger: the same session with a store that never fails and no       *)
(* deletion.                                                               *)
(***************************************************************************)
NextLedger ==
    \/ \E sd \in SurplusInputs : MayIssue /\ ForwardSurplus(1, sd)
    \/ \E i \in 1..MaxBatch : FwdRollOut(1, i)
    \/ \E i \in 1..MaxBatch : FwdRollIn(1, i)
    \/ \E i \in 1..MaxBatch : FwdQuery(1, i)
    \/ \E i \in 1..MaxBatch : FwdUpdate(1, i)
    \/ \E t \in Transactions : MayIssue /\ AddTransaction(1, t, "direct")
    \/ AddTxInsert(1)
    \/ AddTxQuery(1)
    \/ AddTxUpdate(1)
    \/ \E name \in {"Food", "Misc"}, budget \in {0, 5} :
           MayIssue /\ addCategory(1, name, budget)
    \/ AddCatCheck(1)
    \/ AddCatInsert(1)
    \/ AddCatInitial(1)

SpecLedger == Init /\ [][NextLedger]_vars

(***************************************************************************)
(* SpecConc: two invocations of addCategory / addTransaction whose store   *)
(* calls interleave freely; the second slot is used once the first is.     *)
(***************************************************************************)
ConcTransactions ==
    [type : Types, amount : {2, 3}, category : {"Food"},
     date : {InputDate}, description : {"user"}]

MayIssueIn(c) ==
    /\ issued < MaxCmds
    /\ c = 1 \/ calls[1].kind # "idle"

NextConc ==
    \E c \in Slots :
        \/ \E t \in ConcTransactions :
               MayIssueIn(c) /\ AddTransaction(c, t, "direct")
        \/ AddTxInsert(c)
        \/ AddTxQuery(c)
        \/ AddTxUpdate(c)
        \/ AddTxFails(c)
        \/ \E name \in {"Misc", " Misc", "Food"}, budget \in {0, 5} :
               MayIssueIn(c) /\ addCategory(c, name, budget)
        \/ AddCatCheck(c)
        \/ AddCatCheckFails(c)
        \/ AddCatInsert(c)
        \/ AddCatInitial(c)
        \/ AddCatFails(c)

InitConc ==
    /\ Init
    /\ currentUser = User
    /\ cycleType = "calendar"
    /\ currentMonth = getMonth(today)

SpecConc == InitConc /\ [][NextConc]_vars

(***************************************************************************)
(* SpecAuth: identity changes, the listeners effect and teardown.          *)
(***************************************************************************)
MaxChanges == 4

InitAuth ==
    /\ Init
    /\ cycleType = "calendar"
    /\ currentMonth = getMonth(today)

NextAuth ==
    \/ \E u \in Users \cup {NoUser} : issued < MaxChanges /\ AuthChange(u)
    \/ \E transactionsOk \in BOOLEAN : RunEffect(transactionsOk)
    \/ PopulateLookup(2)
    \/ PopulateFails(2)
    \/ OnCategoriesSnapshot
    \/ \E collection \in {"categories", "transactions"} :
           OnListenerError(collection)
    \/ Unmount

SpecAuth == InitAuth /\ [][NextAuth]_vars

(***************************************************************************)
(* SpecStart: a user whose category collection is empty signs in; the      *)
(* population of the starter list and the listeners run side by side.      *)
(***************************************************************************)
InitStart ==
    /\ today \in StoreTodays
    /\ cycleType = "calendar" /\ customStartDay = 15 /\ customEndDay = 14
    /\ currentYear = getFullYear(today)
    /\ currentMonth = getMonth(today)
    /\ currentDay = getDate(today)
    /\ customDateRange = defaultDateRange
    /\ rendered = Seen
    /\ currentUser = NoUser /\ effectDeps = NoUser /\ mounted = TRUE
    /\ listeners = {} /\ userCategories = << >>
    /\ categories = << >> /\ transactions = {}
    /\ calls = [c \in Slots |-> Idle]
    /\ loading = FALSE
    /\ issued = 0

NextStart ==
    \/ \E u \in {User, NoUser} : issued < MaxChanges /\ AuthChange(u)
    \/ \E transactionsOk \in BOOLEAN : RunEffect(transactionsOk)
    \/ PopulateLookup(2)
    \/ PopulateInsert(2)
    \/ PopulateFails(2)
    \/ OnCategoriesSnapshot
    \/ \E collection \in {"categories", "transactions"} :
           OnListenerError(collection)
    \/ Unmount

SpecStart == InitStart /\ [][NextStart]_vars

(***************************************************************************)
(* SpecView: navigation of the reference month from every configuration.   *)
(***************************************************************************)
Deltas == {0 - 2, 0 - 1, 1, 2}

ViewTodays == StoreTodays \cup {MakeDate(2024, 0, 31, 0)}

InitView ==
    /\ InitConfig(ViewTodays, NavCustomDays)
    /\ currentDay <= DaysInMonth(currentYear, currentMonth)
    /\ currentUser = User
    /\ InitStore

NextView ==
    \/ \E delta \in Deltas : MayIssue /\ changeMonth(1, delta)
    \/ \E delta \in Deltas : MayIssue /\ changeDay(1, delta)
    \/ Render

SpecView == InitView /\ [][NextView]_vars

(***************************************************************************)
(* SpecRange: navigation in the date-range variant, from the default       *)
(* range and from ranges saved earlier.                                    *)
(***************************************************************************)
\* the ranges found in localStorage: a month from the 15th to the 14th, a
\* week, one day
SavedRanges ==
    {[start |-> toISODate(MakeDate(2024, 2, 15, 0)),
      end   |-> toISODate(MakeDate(2024, 3, 14, 0))],
     [start |-> toISODate(MakeDate(2024, 2, 4, 0)),
      end   |-> toISODate(MakeDate(2024, 2, 10, 0))],
     [start |-> toISODate(MakeDate(2024, 2, 20, 0)),
      end   |-> toISODate(MakeDate(2024, 2, 20, 0))]}

InitRange ==
    /\ InitConfig(StoreTodays, {15})
    /\ currentYear = getFullYear(today)
    /\ currentMonth = getMonth(today)
    /\ currentUser = User
    /\ categories = <<Category(1, "Food"), Category(2, "Rent")>>
    /\ transactions = {}
    /\ calls = [c \in Slots |-> Idle]
    /\ loading = FALSE
    /\ issued = 0
    /\ mounted = TRUE
    /\ effectDeps = currentUser
    /\ listeners = Subscribed(currentUser, TRUE)
    /\ userCategories = categories
    /\ customDateRange \in SavedRanges \cup {defaultDateRange}
    /\ rendered = Seen

NextRange ==
    \/ \E delta \in Deltas : MayIssue /\ changeMonthRange(1, delta)
    \/ Render

SpecRange == InitRange /\ [][NextRange]_vars

(***************************************************************************)
(* Properties.                                                             *)
(***************************************************************************)
IsForward(c) == calls[c].kind = "forwardSurplus"
Commands ==
    {"addTransaction", "deleteTransaction", "addCategory", "deleteCategory",
     "forwardSurplus"}
CommandInFlight(c) == calls[c].kind \in Commands /\ calls[c].ret = Pending
Started(c) == IsForward(c) /\ calls[c].started
WrittenBy(no) == {d \in transactions : d.origin[1] = no}
WrittenByEntry(no, i) == {d \in transactions : d.origin = <<no, i>>}
NamedIn(cats, name) == SelectSeq(cats, LAMBDA d : d.name = name)
DocOf(cats, id) == SelectSeq(cats, LAMBDA d : d.id = id)

\* C1: in calendar mode the boundaries of the reference month are day 1 at
\* 00:00:00.000 and the last calendar day of that month at 23:59:59.999,
\* and one millisecond after the end is the start of the next month.
C1_CalendarBoundaries ==
    \A c \in Slots :
        IsForward(c) /\ cycleType = "calendar" =>
            LET v == calls[c].viewed
            IN  /\ v.start.ms = 0
                /\ getFullYear(v.start) = currentYear
                /\ getMonth(v.start) = currentMonth
                /\ getDate(v.start) = 1
                /\ v.end.ms = LastMs
                /\ getFullYear(v.end) = currentYear
                /\ getMonth(v.end) = currentMonth
                /\ getDate(v.end) = DaysInMonth(currentYear, currentMonth)
                /\ getDate(v.end) \in
                      IF currentMonth = 1
                      THEN (IF currentYear = 2024 THEN {29} ELSE {28})
                      ELSE {30, 31}
                /\ PlusOneMs(v.end) =
                      getCycleBoundaries(currentMonth + 1, currentYear).start

\* February of a leap year has been computed: it ends on the 29th
C1_Witness ==
    /\ IsForward(1) /\ cycleType = "calendar"
    /\ currentMonth = 1 /\ IsLeap(currentYear)
    /\ getDate(calls[1].viewed.end) = 29

\* C2: a forwardSurplus whose viewed period ends after now returns false and
\* writes nothing.
C2_EligibilityGating ==
    \A c \in Slots :
        IsForward(c) /\ Before(calls[c].now, calls[c].viewed.end) =>
            /\ calls[c].ret = RetFalse
            /\ WrittenBy(calls[c].no) = {}
            /\ categories = calls[c].before

\* C3: an entry with balance <= 0 is skipped: no insert and no accumulator
\* read or write is issued for it, whatever the rest of the batch does.
C3_SkipNonPositive ==
    \A c \in Slots :
        Started(c) =>
            \A i \in DOMAIN calls[c].surplusData :
                calls[c].surplusData[i].balance <= 0 =>
                    /\ calls[c].entries[i].pc = "skipped"
                    /\ WrittenByEntry(calls[c].no, i) = {}

\* a batch with a non-positive entry next to one that was forwarded
C3_Witness ==
    /\ Started(1) /\ calls[1].ret = RetTrue
    /\ \E i, j \in DOMAIN calls[1].surplusData :
          /\ calls[1].surplusData[i].balance <= 0
          /\ calls[1].entries[j].pc = "done"
          /\ WrittenByEntry(calls[1].no, j) # {}

\* C4: when today's day number does not exist in the month after the viewed
\* end, the roll-in date is the last day of that month.
C4_ClampToFollowingMonth ==
    \A c \in Slots :
        Started(c) =>
            LET ve  == calls[c].viewed.end
                fm  == MakeDate(getFullYear(ve), getMonth(ve) + 1, 1, 0)
                dim == DaysInMonth(getFullYear(fm), getMonth(fm))
            IN  getDate(calls[c].now) > dim =>
                    TimestampToDate(calls[c].targetTimestamp) =
                        MakeDate(getFullYear(fm), getMonth(fm), dim, 0)

\* C5: a forwardSurplus none of whose store calls failed returns true and,
\* for each entry with balance > 0 whose category exists, has inserted
\* exactly one roll-out expense dated at the viewed end and exactly one
\* roll-in income dated at the target date, and has added balance to the
\* category's spentAmount.
C5_ForwardWrites ==
    \A c \in Slots :
        /\ Started(c)
        /\ calls[c].ret # Pending
        /\ \A i \in DOMAIN calls[c].entries : calls[c].entries[i].pc # "failed"
        =>
        /\ calls[c].ret = RetTrue
        /\ \A i \in DOMAIN calls[c].surplusData :
              LET e    == calls[c].surplusData[i]
                  docs == NamedIn(calls[c].before, e.categoryName)
                  mine == WrittenByEntry(calls[c].no, i)
                  out  == {d \in mine : d.type = "expense"}
                  in   == {d \in mine : d.type = "income"}
              IN  e.balance > 0 /\ docs # << >> =>
                    /\ Cardinality(out) = 1 /\ Cardinality(in) = 1
                    /\ \A d \in mine :
                          /\ d.amount = e.balance
                          /\ d.category = e.categoryName
                          /\ d.isRollOver
                    /\ \A d \in out :
                          TimestampToDate(d.date) = calls[c].viewed.end
                    /\ \A d \in in :
                          /\ d.date = calls[c].targetTimestamp
                          /\ TimestampToDate(d.date) = targetDate
                    /\ DocOf(categories, docs[1].id) =
                          <<[docs[1] EXCEPT
                               !.spentAmount = docs[1].spentAmount + e.balance]>>

\* two existing categories forwarded in one batch, one with earlier spending
C5_Witness ==
    /\ Started(1) /\ calls[1].ret = RetTrue
    /\ Len(calls[1].surplusData) = 2
    /\ \A i \in DOMAIN calls[1].surplusData :
          /\ calls[1].surplusData[i].balance > 0
          /\ NamedIn(calls[1].before, calls[1].surplusData[i].categoryName) # << >>
    /\ \E k \in DOMAIN calls[1].before : calls[1].before[k].spentAmount > 0

\* C6: the roll-in date lies inside the period that follows the viewed one.
C6_RollInInNextPeriod ==
    \A c \in Slots :
        Started(c) =>
            LET nxt == getCycleBoundaries(currentMonth + 1, currentYear)
                t   == TimestampToDate(calls[c].targetTimestamp)
            IN  AtMost(nxt.start, t) /\ AtMost(t, nxt.end)

\* C7: a successful addTransaction on an existing category adds the amount
\* to budgetAmount (income) or to spentAmount (expense) and leaves the other
\* accumulator and the other categories alone; with no category of that
\* name the transaction is recorded and no category changes.
C7_Accumulation ==
    \A c \in Slots :
        calls[c].kind = "addTransaction" /\ calls[c].ret = RetTrue =>
            LET t    == calls[c].transaction
                docs == NamedIn(calls[c].before, t.category)
            IN  /\ Cardinality(WrittenBy(calls[c].no)) = 1
                /\ IF docs = << >>
                   THEN categories = calls[c].before
                   ELSE categories =
                          [k \in DOMAIN calls[c].before |->
                              LET d == calls[c].before[k]
                              IN  IF d.id # docs[1].id THEN d
                                  ELSE IF t.type = "income"
                                  THEN [d EXCEPT !.budgetAmount = @ + t.amount]
                                  ELSE [d EXCEPT !.spentAmount = @ + t.amount]]

\* an income added to a category that already carried both accumulators
C7_Witness ==
    /\ calls[1].kind = "addTransaction" /\ calls[1].ret = RetTrue
    /\ calls[1].transaction.amount > 0
    /\ \E k \in DOMAIN calls[1].before :
          /\ calls[1].before[k].name = calls[1].transaction.category
          /\ calls[1].before[k].budgetAmount + calls[1].before[k].spentAmount > 0

\* C8: addCategory of a name whose trimmed form already names a category
\* returns false once the lookup has answered, and inserts neither a
\* category nor a transaction.
C8_DuplicateRefused ==
    \A c \in Slots :
        /\ calls[c].kind = "addCategory"
        /\ NamedIn(calls[c].before, trim(calls[c].name)) # << >>
        =>
        /\ calls[c].ret # RetTrue
        /\ calls[c].pc = "done" /\ calls[c].ret # Rejected
              => calls[c].ret = RetFalse
        /\ categories = calls[c].before
        /\ WrittenBy(calls[c].no) = {}

\* a padded duplicate name has been refused
C8_Witness ==
    /\ calls[1].kind = "addCategory" /\ calls[1].name = " Food "
    /\ calls[1].budgetAmount > 0
    /\ calls[1].pc = "done" /\ calls[1].ret = RetFalse

\* C9 as stated: addTransaction with amount <= 0 does not succeed and writes
\* nothing.
C9_AddTransactionRejects ==
    \A c \in Slots :
        calls[c].kind = "addTransaction" /\ calls[c].transaction.amount <= 0 =>
            /\ calls[c].ret # RetTrue
            /\ WrittenBy(calls[c].no) = {}

\* C9 as amended: the form's handleSubmit rejects an empty or non-positive
\* amount without calling addTransaction, so nothing is written; every
\* transaction it passes on has a positive amount.
C9_FormRejects ==
    \A c \in Slots :
        /\ calls[c].kind = "addTransaction" /\ calls[c].via = "form"
              => calls[c].transaction.amount > 0
        /\ calls[c].kind = "handleSubmit"
              => /\ WrittenBy(calls[c].no) = {}
                 /\ categories = calls[c].before
                 /\ ~loading

\* the form has turned down the amount 0 for a signed-in user
C9_Witness ==
    /\ calls[1].kind = "handleSubmit" /\ calls[1].form.amount = "0"
    /\ calls[1].form.category = "Food" /\ currentUser = User

\* C10: no command lets a store failure escape: its promise never rejects.
C10_AlwaysBoolean == \A c \in Slots : calls[c].ret # Rejected

\* C11: deleteTransaction removes only the transaction document: every
\* category's budgetAmount and spentAmount are what they were before the
\* call, and the ledger lost exactly the document of that id (nothing when
\* the call did not succeed).
C11_DeleteKeepsAccumulators ==
    \A c \in Slots :
        calls[c].kind = "deleteTransaction" =>
            /\ categories = calls[c].before
            /\ transactions =
                  IF calls[c].ret = RetTrue
                  THEN {d \in calls[c].ledger : d.id # calls[c].id}
                  ELSE calls[c].ledger

\* a transaction that had raised a category's accumulator has been deleted
C11_Witness ==
    /\ calls[1].kind = "deleteTransaction" /\ calls[1].ret = RetTrue
    /\ \E d \in calls[1].ledger :
          /\ d.id = calls[1].id /\ d.amount > 0
          /\ \E k \in DOMAIN categories :
                /\ categories[k].name = d.category
                /\ Accumulated(d.type, categories[k], 0) >= d.amount

\* C12: at most one subscription per collection is active and all active
\* subscriptions are for one user, the one the listeners effect last ran
\* for; once the effect has run for the current identity they are the
\* current user's, none is active with no user signed in, and none after
\* the provider's teardown.
C12_OneSubscriptionPerUser ==
    /\ \A l, k \in listeners : l.collection = k.collection => l = k
    /\ \A l \in listeners : l.uid = effectDeps /\ l.uid # NoUser
    /\ mounted /\ effectDeps = currentUser =>
          /\ \A l \in listeners : l.uid = currentUser
          /\ currentUser = NoUser => listeners = {}
          /\ currentUser # NoUser => Listener("categories", currentUser) \in listeners
    /\ ~mounted => listeners = {}

\* the effect has run for a second user after identity changes
C12_Witness ==
    /\ mounted /\ issued >= 2
    /\ currentUser = "u2" /\ effectDeps = "u2"
    /\ listeners = Subscribed("u2", TRUE)

\* C13: changeMonth(delta) leaves the reference exactly delta months away
\* from the previous one, the year following the month across the
\* January/December boundary.
C13_MovesByDelta ==
    \A c \in Slots :
        calls[c].kind = "changeMonth" =>
            12 * currentYear + currentMonth =
                12 * calls[c].from.year + calls[c].from.month + calls[c].delta

\* C13 for the single steps of the navigation buttons in calendar mode
C13_CalendarSingleStep ==
    \A c \in Slots :
        /\ calls[c].kind = "changeMonth" /\ cycleType = "calendar"
        /\ calls[c].seen.month = calls[c].from.month
        /\ calls[c].seen.year = calls[c].from.year
        /\ calls[c].delta \in {0 - 1, 1}
        => 12 * currentYear + currentMonth =
               12 * calls[c].from.year + calls[c].from.month + calls[c].delta

\* C13 for the single steps of the navigation buttons in custom mode
C13_CustomSingleStep ==
    \A c \in Slots :
        /\ calls[c].kind = "changeMonth" /\ cycleType = "custom"
        /\ calls[c].delta \in {0 - 1, 1}
        => 12 * currentYear + currentMonth =
               12 * calls[c].from.year + calls[c].from.month + calls[c].delta

\* C14: within one entry of a forwardSurplus call the roll-in insert is
\* issued only after the roll-out insert has completed, and the category
\* read and update only after the roll-in insert has completed.
C14_StepsOrdered ==
    \A c \in Slots :
        Started(c) =>
            \A i \in DOMAIN calls[c].entries :
                LET e    == calls[c].entries[i]
                    mine == WrittenByEntry(calls[c].no, i)
                    out  == {d \in mine : d.type = "expense"}
                    in   == {d \in mine : d.type = "income"}
                IN  /\ in # {} => out # {}
                    /\ e.pc \in {"rollout", "skipped"} => mine = {}
                    /\ e.pc = "rollin" => out # {} /\ in = {}
                    /\ e.pc \in {"query", "update", "done"} =>
                          out # {} /\ in # {}
                    /\ e.categoryId # 0 => in # {}

\* the steps of two entries interleave: the second entry has reached its
\* accumulator update while the first still waits for its roll-out insert
C14_Witness ==
    /\ Started(1) /\ Len(calls[1].entries) = 2
    /\ calls[1].entries[1].pc = "rollout"
    /\ calls[1].entries[2].pc = "update"
    /\ Cardinality(WrittenByEntry(calls[1].no, 2)) = 2

\* C15: a forwardSurplus one of whose store calls failed returns false,
\* and no step of the invocation takes back what it has written: the
\* ledger only grows and no accumulator shrinks while the invocation is
\* the current one.
C15_FailureKeepsWrites ==
    /\ [](\A c \in Slots :
            /\ Started(c)
            /\ \E i \in DOMAIN calls[c].entries : calls[c].entries[i].pc = "failed"
            => calls[c].ret = RetFalse)
    /\ [][\A c \in Slots :
            IsForward(c) /\ calls'[c].kind = "forwardSurplus"
                /\ calls'[c].no = calls[c].no
            => /\ transactions \subseteq transactions'
               /\ Len(categories') = Len(categories)
               /\ \A k \in DOMAIN categories :
                     /\ categories'[k].id = categories[k].id
                     /\ categories'[k].budgetAmount = categories[k].budgetAmount
                     /\ categories'[k].spentAmount >= categories[k].spentAmount]_vars

\* one entry failed after its roll-out insert; the other entry's pair and
\* accumulator update are in the store although the call returned false
C15_Witness ==
    /\ Started(1) /\ calls[1].ret = RetFalse /\ Len(calls[1].entries) = 2
    /\ calls[1].entries[1].pc = "failed"
    /\ Cardinality(WrittenByEntry(calls[1].no, 1)) = 1
    /\ calls[1].entries[2].pc = "done"
    /\ Cardinality(WrittenByEntry(calls[1].no, 2)) = 2
    /\ categories # calls[1].before

\* the roll-out documents of earlier invocations for entry i of call c: same
\* category, amount and viewed end
EarlierRollOuts(c, i) ==
    {d \in transactions :
        /\ d.origin[1] < calls[c].no
        /\ d.isRollOver /\ d.type = "expense"
        /\ d.category = calls[c].surplusData[i].categoryName
        /\ d.amount = calls[c].surplusData[i].balance
        /\ d.date = calls[c].sourceTimestamp}

\* C16: forwardSurplus has no already-forwarded guard: a successful call
\* for a positive entry whose roll-out of the same period is already in the
\* ledger writes its own roll-out/roll-in pair again and adds balance to
\* the category's spentAmount again.
C16_DoubleBooks ==
    \A c \in Slots :
        Started(c) /\ calls[c].ret = RetTrue =>
            \A i \in DOMAIN calls[c].surplusData :
                LET e    == calls[c].surplusData[i]
                    docs == NamedIn(calls[c].before, e.categoryName)
                    mine == WrittenByEntry(calls[c].no, i)
                IN  e.balance > 0 /\ docs # << >> /\ EarlierRollOuts(c, i) # {} =>
                      /\ Cardinality({d \in mine : d.type = "expense"}) = 1
                      /\ Cardinality({d \in mine : d.type = "income"}) = 1
                      /\ \A d \in mine : d.amount = e.balance /\ d.isRollOver
                      /\ DocOf(categories, docs[1].id) =
                            <<[docs[1] EXCEPT
                                 !.spentAmount = docs[1].spentAmount + e.balance]>>

\* the same entry forwarded twice for the same period: two pairs in the
\* ledger and the balance twice in spentAmount
C16_Witness ==
    /\ Started(1) /\ calls[1].ret = RetTrue /\ calls[1].no = 2
    /\ \E i \in DOMAIN calls[1].surplusData :
          /\ calls[1].surplusData[i].balance > 0
          /\ Cardinality(EarlierRollOuts(1, i)) = 1
          /\ Cardinality(WrittenByEntry(1, i) \cup WrittenByEntry(2, i)) = 4
          /\ \E k \in DOMAIN categories :
                /\ categories[k].name = calls[1].surplusData[i].categoryName
                /\ categories[k].spentAmount = 2 * calls[1].surplusData[i].balance

\* C17: when an entry carries the category's balance over the viewed
\* period (income - expense of the transactions dated within [start, end],
\* bounds included) and that balance is positive, then after a successful
\* forwardSurplus the same computation gives 0: the roll-out counts inside
\* the viewed period and the roll-in does not.
C17_ZeroesViewedPeriod ==
    \A c \in Slots :
        Started(c) /\ calls[c].ret = RetTrue =>
            \A i \in DOMAIN calls[c].surplusData :
                LET e     == calls[c].surplusData[i]
                    prior == transactions \ WrittenBy(calls[c].no)
                    mine  == WrittenByEntry(calls[c].no, i)
                    shown == filteredTransactions(transactions, calls[c].viewed)
                IN  /\ e.balance > 0
                    /\ categorySummary(prior, calls[c].viewed,
                                       e.categoryName).balance = e.balance
                    =>
                    /\ categorySummary(transactions, calls[c].viewed,
                                       e.categoryName).balance = 0
                    /\ \A d \in mine : d \in shown <=> d.type = "expense"

\* the handler of ExpenseList has forwarded the balance it computed
C17_Witness ==
    /\ Started(1) /\ calls[1].ret = RetTrue
    /\ \E i \in DOMAIN calls[1].surplusData :
          /\ calls[1].surplusData[i].balance > 0
          /\ categorySummary(transactions \ WrittenBy(calls[1].no),
                             calls[1].viewed,
                             calls[1].surplusData[i].categoryName).balance
                = calls[1].surplusData[i].balance
          /\ Cardinality(WrittenByEntry(calls[1].no, i)) = 2

\* the accumulators of category document d as the ledger gives them
FromLedger(d) ==
    [budgetAmount |-> SumAmounts({t \in transactions :
                                    t.category = d.name /\ t.type = "income"}),
     spentAmount  |-> SumAmounts({t \in transactions :
                                    t.category = d.name /\ t.type = "expense"})]

\* C18: with no store failure and no deletion, whenever no command is in
\* flight every category's budgetAmount is the sum of the income
\* transactions naming it and its spentAmount the sum of the expense
\* transactions naming it.
C18_Recomputable ==
    Quiet =>
        \A k \in DOMAIN categories :
            /\ categories[k].budgetAmount = FromLedger(categories[k]).budgetAmount
            /\ categories[k].spentAmount = FromLedger(categories[k]).spentAmount

\* C18 for the ledgers without a forwarded surplus and the categories that
\* existed from the start
C18_WithoutForwarding ==
    Quiet /\ (\A t \in transactions : ~t.isRollOver) =>
        \A k \in DOMAIN categories :
            categories[k].name \in CategoryNames =>
                /\ categories[k].budgetAmount = FromLedger(categories[k]).budgetAmount
                /\ categories[k].spentAmount = FromLedger(categories[k]).spentAmount

\* two addCategory invocations for the same trimmed name
SameNameAdds(c, d) ==
    /\ c # d
    /\ calls[c].kind = "addCategory" /\ calls[d].kind = "addCategory"
    /\ trim(calls[c].name) = trim(calls[d].name)

\* C19: the duplicate check is not atomic with the insert: an addCategory
\* whose lookup found nothing inserts its document whatever the other
\* invocation has inserted meanwhile, so when two invocations for the same
\* trimmed name both return true there are two category documents of that
\* name, theirs.
C19_RaceLeavesDuplicates ==
    \A c, d \in Slots :
        SameNameAdds(c, d) =>
            /\ calls[c].ret = RetTrue =>
                  DocOf(categories, DocId(calls[c].no, 0, 1)) # << >>
            /\ calls[c].ret = RetTrue /\ calls[d].ret = RetTrue =>
                  /\ Len(CategoriesNamed(trim(calls[c].name))) = 2
                  /\ \A k \in DOMAIN categories :
                        categories[k].name = trim(calls[c].name) =>
                            categories[k].id \in {DocId(calls[c].no, 0, 1),
                                                  DocId(calls[d].no, 0, 1)}

\* both lookups answered before either insert, and both invocations
\* returned true: two categories named Misc
C19_Witness ==
    /\ SameNameAdds(1, 2)
    /\ calls[1].name # calls[2].name
    /\ calls[1].ret = RetTrue /\ calls[2].ret = RetTrue
    /\ Len(CategoriesNamed("Misc")) = 2

\* two addTransaction invocations of the same type on the same category
\* that both read the accumulator at the same value
SameBaseAdds(c, d) ==
    /\ c # d
    /\ calls[c].kind = "addTransaction" /\ calls[d].kind = "addTransaction"
    /\ calls[c].transaction.type = calls[d].transaction.type
    /\ calls[c].transaction.category = calls[d].transaction.category
    /\ calls[c].categoryId # 0 /\ calls[c].categoryId = calls[d].categoryId
    /\ calls[c].newAmount - calls[c].transaction.amount =
          calls[d].newAmount - calls[d].transaction.amount

\* C20: the accumulator update is a read-then-write: when two addTransaction
\* invocations of the same type on the same category both read before either
\* wrote and both return true, both transactions are recorded and the
\* accumulator has grown by the amount of one of them only.
C20_LostUpdate ==
    \A c, d \in Slots :
        SameBaseAdds(c, d) /\ calls[c].ret = RetTrue /\ calls[d].ret = RetTrue =>
            LET doc == DocOf(categories, calls[c].categoryId)[1]
            IN  /\ Cardinality(WrittenBy(calls[c].no) \cup WrittenBy(calls[d].no)) = 2
                /\ Accumulated(calls[c].transaction.type, doc, 0) \in
                      {calls[c].newAmount, calls[d].newAmount}

\* expenses of 2 and 3 on Food, both recorded, spentAmount grown by one of
\* them
C20_Witness ==
    /\ SameBaseAdds(1, 2)
    /\ calls[1].ret = RetTrue /\ calls[2].ret = RetTrue
    /\ calls[1].transaction.type = "expense"
    /\ calls[1].transaction.amount + calls[2].transaction.amount = 5
    /\ Cardinality(transactions) = 2
    /\ SumAmounts(transactions) = 5
    /\ categories[1].spentAmount \in {2, 3}

\* C21: for a user whose category collection was empty, once the
\* categories listener has delivered a snapshot the in-memory categories
\* hold the whole starter list (no store call of the population failed).
C21_StarterBeforeSnapshot ==
    \A c \in Slots :
        /\ Populating(c) /\ calls[c].empty /\ calls[c].delivered
        /\ calls[c].ret # RetFalse
        /\ mounted /\ currentUser = calls[c].uid /\ effectDeps = currentUser
        => /\ Len(userCategories) >= Len(defaultCategories)
           /\ \A k \in DOMAIN defaultCategories :
                 \E j \in DOMAIN userCategories :
                     userCategories[j].name = defaultCategories[k]

\* C22: the overview totals, the per-category breakdown and the
\* eligibility check of forwardSurplus are over the same [start, end], the
\* one getCycleBoundaries gives for the active configuration and the
\* current reference month and year.
C22_SamePeriodEverywhere ==
    /\ viewedCycle = getCycleBoundaries(currentMonth, currentYear)
    /\ listCycle = viewedCycle
    /\ overviewCycle = viewedCycle
    /\ overviewTransactions = filteredTransactions(transactions, listCycle)

\* C22 without the overview: the breakdown and the eligibility check
C22_ListAndForwarder ==
    /\ viewedCycle = getCycleBoundaries(currentMonth, currentYear)
    /\ listCycle = viewedCycle

\* C22 in calendar mode
C22_CalendarMode ==
    cycleType = "calendar" =>
        /\ overviewCycle = viewedCycle
        /\ overviewTransactions = filteredTransactions(transactions, listCycle)

\* C23: the reference (year, month, day) is a valid calendar date, and a
\* changeMonth leaves the reference day at 1.
C23_ValidReferenceDate ==
    /\ 1 <= currentDay /\ currentDay <= DaysInMonth(currentYear, currentMonth)
    /\ \A c \in Slots : calls[c].kind = "changeMonth" => currentDay = 1

\* C23 in calendar mode
C23_CalendarMode ==
    cycleType = "calendar" =>
        /\ 1 <= currentDay /\ currentDay <= DaysInMonth(currentYear, currentMonth)
        /\ \A c \in Slots : calls[c].kind = "changeMonth" => currentDay = 1

\* C23 for changeDay: the date it leaves is valid
C23_ChangeDayValid ==
    \A c \in Slots :
        calls[c].kind = "changeDay" =>
            1 <= currentDay /\ currentDay <= DaysInMonth(currentYear, currentMonth)

\* C24: in custom mode of the date-range variant, changeMonth(1) called on
\* the range on screen leaves the range that directly follows it: it starts
\* on the day after the old end and has the old number of days; and
\* changeMonth(-1) leaves the range that directly precedes it, so that the
\* one undoes the other.
C24_FollowsWithoutOverlap ==
    \A c \in Slots :
        (/\ calls[c].kind = "changeMonthRange"
         /\ cycleType = "custom"
         /\ calls[c].seen.range = calls[c].range)
        => /\ customDateRange.end - customDateRange.start =
                  calls[c].range.end - calls[c].range.start
           /\ calls[c].delta = 1 =>
                  customDateRange.start = calls[c].range.end + 1
           /\ calls[c].delta = 0 - 1 =>
                  customDateRange.end = calls[c].range.start - 1

\* C24, the part that holds: the number of days is kept, and changeMonth(-1)
\* of the range changeMonth(1) leaves is the range itself
C24_LengthKeptAndUndone ==
    /\ \A c \in Slots :
           (/\ calls[c].kind = "changeMonthRange"
            /\ cycleType = "custom"
            /\ calls[c].seen.range = calls[c].range)
           => customDateRange.end - customDateRange.start =
                  calls[c].range.end - calls[c].range.start
    /\ ShiftedRange(ShiftedRange(customDateRange, 1), 0 - 1) = customDateRange

\* C24, what the code does: the range changeMonth(1) leaves starts on the
\* old end
C24_StartsOnOldEnd ==
    \A c \in Slots :
        (/\ calls[c].kind = "changeMonthRange"
         /\ cycleType = "custom"
         /\ calls[c].delta = 1
         /\ calls[c].seen.range = calls[c].range)
        => customDateRange.start = calls[c].range.end

\* C25: in custom mode a forwardSurplus proceeds to its writes exactly when
\* today lies within the cycle of today's month and the viewed cycle starts
\* where the cycle of the month before today's month starts; otherwise it
\* returns false, and no document and no accumulator is written.
C25_ProceedsIffEligible ==
    \A c \in Slots :
        IsForward(c) /\ cycleType = "custom" =>
            LET oneBefore ==
                    getCycleBoundaries(getMonth(today) - 1, getFullYear(today))
                eligible ==
                    /\ AtMost(actualCycle.start, today)
                    /\ AtMost(today, actualCycle.end)
                    /\ calls[c].viewed.start = oneBefore.start
            IN  /\ calls[c].started <=> eligible
                /\ ~eligible =>
                       /\ calls[c].ret = RetFalse
                       /\ WrittenBy(calls[c].no) = {}
                       /\ categories = calls[c].before

\* C25 with the previous cycle as the code computes it: the cycle of the
\* month in which the start of today's cycle, moved one month back, falls
C25_AsComputed ==
    \A c \in Slots :
        IsForward(c) /\ cycleType = "custom" =>
            LET eligible ==
                    /\ AtMost(actualCycle.start, today)
                    /\ AtMost(today, actualCycle.end)
                    /\ calls[c].viewed.start = prevCycleStartCalc
            IN  /\ calls[c].started <=> eligible
                /\ ~eligible =>
                       /\ calls[c].ret = RetFalse
                       /\ WrittenBy(calls[c].no) = {}
                       /\ categories = calls[c].before

\* C25 for start days every month has: the two readings of "the cycle one
\* month before" agree
C25_StartDayInEveryMonth ==
    \A c \in Slots :
        IsForward(c) /\ cycleType = "custom" /\ customStartDay <= 28 =>
            LET oneBefore ==
                    getCycleBoundaries(getMonth(today) - 1, getFullYear(today))
                eligible ==
                    /\ AtMost(actualCycle.start, today)
                    /\ AtMost(today, actualCycle.end)
                    /\ calls[c].viewed.start = oneBefore.start
            IN  calls[c].started <=> eligible

\* C26: the loading flag is true exactly while some command has a store call
\* in flight.
C26_LoadingTracksCommands ==
    loading <=> \E c \in Slots : CommandInFlight(c)

\* C26, one direction: the flag is false once no command is in flight
C26_FalseWhenQuiet ==
    (\A c \in Slots : ~CommandInFlight(c)) => ~loading

\* C26 for a command that runs alone and is not in addCategory's lookup
C26_AloneAfterLookup ==
    (\A c, d \in Slots : CommandInFlight(c) /\ CommandInFlight(d) => c = d) =>
        \A c \in Slots :
            CommandInFlight(c) /\ ~AddCatPending(c, "check") => loading

\* C27: once a forwardSurplus has returned, no step adds a document of that
\* invocation or changes an accumulator on its behalf.
C27_NoWriteAfterReturn ==
    [][\A c \in Slots :
          (/\ IsForward(c)
           /\ calls[c].ret # Pending
           /\ calls'[c].kind = "forwardSurplus"
           /\ calls'[c].no = calls[c].no)
          => /\ WrittenBy(calls[c].no)' = WrittenBy(calls[c].no)
             /\ categories' = categories]_vars

\* C27 for an invocation that returned true
C27_NoWriteAfterTrue ==
    [][\A c \in Slots :
          (/\ IsForward(c)
           /\ calls[c].ret = RetTrue
           /\ calls'[c].kind = "forwardSurplus"
           /\ calls'[c].no = calls[c].no)
          => /\ WrittenBy(calls[c].no)' = WrittenBy(calls[c].no)
             /\ categories' = categories]_vars

\* C27, what the code does: a forwardSurplus has returned false and an entry
\* of it has written since
C27_WritesAfterFalse ==
    \E c \in Slots :
        /\ IsForward(c)
        /\ calls[c].ret = RetFalse
        /\ \E i, j \in DOMAIN calls[c].entries :
              /\ calls[c].entries[i].pc = "failed"
              /\ WrittenByEntry(calls[c].no, i) = {}
              /\ calls[c].entries[j].pc = "done"
              /\ Cardinality(WrittenByEntry(calls[c].no, j)) = 2

\* C28: an addTransaction that returned false has added no transaction
\* document.
C28_FalseMeansNothingAdded ==
    \A c \in Slots :
        calls[c].kind = "addTransaction" /\ calls[c].ret = RetFalse =>
            WrittenBy(calls[c].no) = {}

\* C28, what the code does: the command returned false, was invoked again
\* with the same input, and the ledger holds the transaction twice
C28_RecordedTwice ==
    \E c \in Slots :
        /\ calls[c].kind = "addTransaction"
        /\ \E d, e \in transactions :
              /\ d.origin[1] < e.origin[1]
              /\ e.origin[1] = calls[c].no
              /\ [d EXCEPT !.id = 0, !.origin = << >>] =
                     [e EXCEPT !.id = 0, !.origin = << >>]

\* C29: the reference (month, year) a changeMonth leaves is the one it
\* leaves when its closure has seen the state it is applied to: a call made
\* before the provider rendered the previous call moves the reference as a
\* call made after that render does.
C29_RenderIndependent ==
    \A c \in Slots :
        calls[c].kind = "changeMonth" =>
            [month |-> currentMonth, year |-> currentYear] =
                MovedMonthFrom(calls[c].from, calls[c].from, calls[c].delta)

\* C29 for a call whose closure saw the state it was applied to
C29_AfterRender ==
    \A c \in Slots :
        (/\ calls[c].kind = "changeMonth"
         /\ calls[c].seen.month = calls[c].from.month
         /\ calls[c].seen.year = calls[c].from.year)
        => [month |-> currentMonth, year |-> currentYear] =
               MovedMonthFrom(calls[c].from, calls[c].from, calls[c].delta)

\* C29, what the code does: from December of the first year two
\* changeMonth(1) without a render in between leave February of the same year
C29_StaleYear ==
    \E c \in Slots :
        /\ calls[c].kind = "changeMonth" /\ calls[c].delta = 1
        /\ cycleType = "calendar"
        /\ calls[c].seen = [month |-> 11, year |-> FirstYear, day |-> 1,
                            range |-> customDateRange]
        /\ calls[c].from = [month |-> 0, year |-> FirstYear + 1]
        /\ currentMonth = 1 /\ currentYear = FirstYear

\* C30: in custom mode today lies within the cycle forwardSurplus computes
\* as the current one (getCycleBoundaries of today's month and year),
\* whatever today and the configured start and end days are.
C30_TodayInActualCycle ==
    cycleType = "custom" => isInCurrentCycle

\* C30 for the days from the configured start day on: they are not before
\* the start of the cycle
C30_FromStartDayOn ==
    cycleType = "custom" /\ getDate(today) >= customStartDay =>
        AtMost(actualCycle.start, today)

\* C30, what the code does: on a day before the start day no viewed period
\* passes the check, and the forwardSurplus returns false
C30_NothingForwardable ==
    /\ cycleType = "custom"
    /\ getDate(today) < customStartDay
    /\ ~isInCurrentCycle
    /\ \E c \in Slots : IsForward(c) /\ calls[c].ret = RetFalse
    /\ \A m \in 0..11, y \in Years :
           ~(/\ isInCurrentCycle
             /\ getCycleBoundaries(m, y).start = prevCycleStartCalc)

====
